---- MODULE Spec2Model ----
(***************************************************************************)
(* Model of the guardis type-guard combinator engine                       *)
(* (src/guardis/src/guard.ts, src/guardis/src/modules/async.ts).           *)
(*                                                                         *)
(* JavaScript values are tagged records; field "t" is the tag.  The        *)
(* outcome of evaluating an expression is either a value or the record     *)
(* Throw(..), which stands for an exception leaving the expression.  A     *)
(* string is the sequence of its characters, so that the regular           *)
(* expression and the numeric parsers are computed character by character. *)
(***************************************************************************)
EXTENDS Integers, Sequences, FiniteSets, TLC

\* ------------------------------------------------------------------------
\* Bounds of the model
\* ------------------------------------------------------------------------

\* number of guards a caller creates on top of the built-in catalogue
MaxUserGuards == 2

\* ------------------------------------------------------------------------
\* JavaScript values
\* ------------------------------------------------------------------------

Null == [t |-> "null"]
Undefined == [t |-> "undefined"]
True == [t |-> "boolean", b |-> TRUE]
False == [t |-> "boolean", b |-> FALSE]
JSBool(b) == IF b THEN True ELSE False
Str(chars) == [t |-> "string", s |-> chars]
Num(n) == [t |-> "number", cls |-> "fin", n |-> n]
NaN == [t |-> "number", cls |-> "nan", n |-> 0]
Infinity == [t |-> "number", cls |-> "inf", n |-> 0]
NegInfinity == [t |-> "number", cls |-> "-inf", n |-> 0]
Sym == [t |-> "symbol"]
\* proto "Function": an ordinary function; "AsyncFunction": an async
\* function; "null": a function whose prototype was set to null
Fn(proto) == [t |-> "function", proto |-> proto]
\* a function that was given own properties (Object.assign(fn, {...}))
FnWith(proto, keys, vals) == [t |-> "function", proto |-> proto, keys |-> keys, vals |-> vals]
Arr(items) == [t |-> "array", items |-> items]
\* proto "Object": a plain object; "null": Object.create(null); any other
\* name: an instance of that class.  keys/vals are the own enumerable
\* properties in insertion order.
Obj(proto, keys, vals) == [t |-> "object", proto |-> proto, keys |-> keys, vals |-> vals]

\* msg is the message, as the sequence of its parts
Throw(msg) == [t |-> "throw", err |-> "TypeError", msg |-> msg]
IsThrow(r) == r.t = "throw"

\* typeof
TypeOf(v) ==
  CASE v.t = "null" -> "object"
    [] v.t = "array" -> "object"
    [] OTHER -> v.t

\* ToBoolean
Truthy(v) ==
  CASE v.t = "null" -> FALSE
    [] v.t = "undefined" -> FALSE
    [] v.t = "boolean" -> v.b
    [] v.t = "number" -> ~(v.cls = "nan" \/ (v.cls = "fin" /\ v.n = 0))
    [] v.t = "string" -> Len(v.s) > 0
    [] OTHER -> TRUE

\* Array.isArray
IsArrayJS(v) == v.t = "array"

\* Object.getPrototypeOf, for values that are objects
ProtoOf(v) ==
  CASE v.t = "array" -> "Array"
    [] v.t = "object" -> v.proto
    [] v.t = "function" -> v.proto
    [] OTHER -> "none"

\* Object.values / Object.keys
ObjectValues(v) == IF v.t = "object" THEN v.vals ELSE IF v.t = "array" THEN v.items ELSE <<>>
ObjectKeys(v) == IF v.t = "object" THEN v.keys ELSE <<>>

\* The own keys of an object value: the keys of a plain object or instance,
\* the indices and length of an array, the length and name of a function
ArrayIndexKeys == <<"0", "1", "2", "3">>
OwnKeys(v) ==
  CASE v.t = "object" -> { v.keys[i] : i \in DOMAIN v.keys }
    [] v.t = "array" -> {"length"} \cup { ArrayIndexKeys[i] : i \in DOMAIN v.items }
    [] v.t = "function" ->
         {"length", "name"} \cup (IF "keys" \in DOMAIN v THEN { v.keys[i] : i \in DOMAIN v.keys } ELSE {})
    [] OTHER -> {}

\* The built-in prototypes: the prototype of each, and the keys each has
ProtoParent(p) ==
  CASE p \in {"Object", "null"} -> "null"
    [] p = "AsyncFunction" -> "Function"
    [] OTHER -> "Object"
ProtoKeys(p) ==
  CASE p = "Object" -> {"constructor", "toString", "hasOwnProperty"}
    [] p = "Array" -> {"constructor", "toString", "Symbol.iterator"}
    [] p = "Function" -> {"constructor", "toString", "call"}
    [] p = "Promise" -> {"constructor", "then"}
    [] p = "Date" -> {"constructor", "toString", "getTime"}
    [] p = "Class" -> {"constructor"}
    [] OTHER -> {}

\* whether k is found on prototype p or further up the chain
RECURSIVE InPrototype(_, _)
InPrototype(p, k) == p \notin {"null", "none"} /\ (k \in ProtoKeys(p) \/ InPrototype(ProtoParent(p), k))

\* `k in t`: own key, or a key inherited from the prototype
HasIn(v, k) == k \in OwnKeys(v) \/ InPrototype(ProtoOf(v), k)

\* t[k]: an own property's value; what is inherited from the built-in
\* prototypes are methods
GetProp(v, k) ==
  IF k \in OwnKeys(v)
    THEN CASE v.t = "object" -> v.vals[CHOOSE i \in DOMAIN v.keys : v.keys[i] = k]
           [] v.t = "array" /\ k = "length" -> Num(Len(v.items))
           [] v.t = "array" -> v.items[CHOOSE i \in DOMAIN v.items : ArrayIndexKeys[i] = k]
           [] v.t = "function" /\ k = "length" -> Num(0)
           [] v.t = "function" /\ k /= "name" -> v.vals[CHOOSE i \in DOMAIN v.keys : v.keys[i] = k]
           [] OTHER -> Str(<<>>)
  ELSE IF InPrototype(ProtoOf(v), k) THEN Fn("Function")
  ELSE Undefined

\* ------------------------------------------------------------------------
\* Strings, the numeric regular expression, parseInt and parseFloat
\* ------------------------------------------------------------------------

DigitChars == <<"0", "1", "2", "3", "4", "5", "6", "7", "8", "9">>
IsDigit(c) == \E i \in DOMAIN DigitChars : DigitChars[i] = c
DigitVal(c) == (CHOOSE i \in DOMAIN DigitChars : DigitChars[i] = c) - 1
Chars(str) ==
  CASE str = "null" -> <<"n", "u", "l", "l">>
    [] str = "undefined" -> <<"u", "n", "d", "e", "f", "i", "n", "e", "d">>
    [] str = "true" -> <<"t", "r", "u", "e">>
    [] str = "false" -> <<"f", "a", "l", "s", "e">>
    [] str = "NaN" -> <<"N", "a", "N">>
    [] str = "Infinity" -> <<"I", "n", "f", "i", "n", "i", "t", "y">>
    [] str = "-Infinity" -> <<"-", "I", "n", "f", "i", "n", "i", "t", "y">>
    [] str = "[object Object]" -> <<"[", "o", "b", "j", "e", "c", "t", " ", "O", "b", "j", "e", "c", "t", "]">>
    [] str = "function" -> <<"(", ")", " ", "=", ">", " ", "{", "}">>
    [] str = "date" -> <<"S", "u", "n", " ", "N", "o", "v", " ", "0", "1">>

RECURSIVE NatToChars(_)
NatToChars(n) == IF n < 10 THEN <<DigitChars[n + 1]>> ELSE NatToChars(n \div 10) \o <<DigitChars[(n % 10) + 1]>>

\* ToString(v): a Str, or Throw for a symbol and for an object that has no
\* toString to inherit
RECURSIVE ToStringJS(_)
RECURSIVE JoinJS(_, _)
JoinJS(items, i) ==
  IF i > Len(items) THEN Str(<<>>)
  ELSE LET e == items[i]
           head == IF e.t \in {"null", "undefined"} THEN Str(<<>>) ELSE ToStringJS(e)
           tail == JoinJS(items, i + 1)
       IN IF IsThrow(head) THEN head
          ELSE IF IsThrow(tail) THEN tail
          ELSE Str(head.s \o (IF i < Len(items) THEN <<",">> ELSE <<>>) \o tail.s)
ToStringJS(v) ==
  CASE v.t = "string" -> v
    [] v.t = "null" -> Str(Chars("null"))
    [] v.t = "undefined" -> Str(Chars("undefined"))
    [] v.t = "boolean" -> Str(Chars(IF v.b THEN "true" ELSE "false"))
    [] v.t = "number" ->
         (CASE v.cls = "nan" -> Str(Chars("NaN"))
            [] v.cls = "inf" -> Str(Chars("Infinity"))
            [] v.cls = "-inf" -> Str(Chars("-Infinity"))
            [] OTHER -> Str(IF v.n < 0 THEN <<"-">> \o NatToChars(0 - v.n) ELSE NatToChars(v.n)))
    [] v.t = "symbol" -> Throw(<<"Cannot convert a Symbol value to a string">>)
    [] v.t = "function" ->
         IF v.proto = "null" THEN Throw(<<"Cannot convert object to primitive value">>)
         ELSE Str(Chars("function"))
    [] v.t = "array" -> JoinJS(v.items, 1)
    [] v.t = "object" ->
         (CASE v.proto = "null" -> Throw(<<"Cannot convert object to primitive value">>)
            [] v.proto = "Date" -> Str(Chars("date"))
            [] OTHER -> Str(Chars("[object Object]")))

AllDigits(cs) == \A i \in DOMAIN cs : IsDigit(cs[i])

\* /^-?\d*\.?\d+$/ on a character sequence
NumericRegexMatches(cs) ==
  LET body == IF Len(cs) > 0 /\ cs[1] = "-" THEN Tail(cs) ELSE cs
  IN \/ Len(body) > 0 /\ AllDigits(body)
     \/ \E d \in DOMAIN body :
          /\ body[d] = "."
          /\ d < Len(body)
          /\ AllDigits(SubSeq(body, 1, d - 1))
          /\ AllDigits(SubSeq(body, d + 1, Len(body)))

\* RegExp.prototype.test(t): the argument is converted with ToString first
NumericRegexTest(v) ==
  IF IsThrow(ToStringJS(v)) THEN ToStringJS(v) ELSE JSBool(NumericRegexMatches(ToStringJS(v).s))

IsSpace(c) == c \in {" ", "\t", "\n"}
RECURSIVE SkipSpaces(_)
SkipSpaces(cs) == IF Len(cs) > 0 /\ IsSpace(cs[1]) THEN SkipSpaces(Tail(cs)) ELSE cs
RECURSIVE DigitRun(_)
DigitRun(cs) == IF Len(cs) > 0 /\ IsDigit(cs[1]) THEN <<cs[1]>> \o DigitRun(Tail(cs)) ELSE <<>>
RECURSIVE DigitsToNat(_, _)
DigitsToNat(ds, acc) == IF ds = <<>> THEN acc ELSE DigitsToNat(Tail(ds), acc * 10 + DigitVal(ds[1]))

\* a leading sign, and what follows it
HasMinus(a) == Len(a) > 0 /\ a[1] = "-"
AfterSign(a) == IF Len(a) > 0 /\ a[1] \in {"-", "+"} THEN Tail(a) ELSE a
Signed(neg, n) == Num(IF neg THEN 0 - n ELSE n)

\* parseInt(t): optional blanks, optional sign, the leading run of digits.
\* ParseIntDigits: the number for the sign and the run of digits ds;
\* ParseIntString: parseInt of the string s that ToString gave.
ParseIntDigits(neg, ds) == IF ds = <<>> THEN NaN ELSE Signed(neg, DigitsToNat(ds, 0))
ParseIntString(s) ==
  IF IsThrow(s) THEN s
  ELSE ParseIntDigits(HasMinus(SkipSpaces(s.s)), DigitRun(AfterSign(SkipSpaces(s.s))))
ParseIntJS(v) == ParseIntString(ToStringJS(v))

\* parseFloat(t): as parseInt, with an optional fraction.  The number is
\* kept by its integer part; a non-zero fraction below one is kept as
\* cls "frac" so that it is still different from zero.
\* ParseFloatParts: the number for the sign, the digits ds before the point
\* and the digits fs after it; ParseFloatDigits: the same from the
\* characters b after the sign, ds being their leading digits.
FractionDigits(rest) == IF Len(rest) > 0 /\ rest[1] = "." THEN DigitRun(Tail(rest)) ELSE <<>>
ParseFloatParts(neg, ds, fs) ==
  IF ds = <<>> /\ fs = <<>> THEN NaN
  ELSE IF DigitsToNat(ds, 0) = 0 /\ DigitsToNat(fs, 0) > 0 THEN [t |-> "number", cls |-> "frac", n |-> 0]
  ELSE Signed(neg, DigitsToNat(ds, 0))
ParseFloatDigits(neg, b, ds) == ParseFloatParts(neg, ds, FractionDigits(SubSeq(b, Len(ds) + 1, Len(b))))
ParseFloatString(s) ==
  IF IsThrow(s) THEN s
  ELSE ParseFloatDigits(HasMinus(SkipSpaces(s.s)), AfterSign(SkipSpaces(s.s)),
                        DigitRun(AfterSign(SkipSpaces(s.s))))
ParseFloatJS(v) == ParseFloatString(ToStringJS(v))

\* isNaN on a number
IsNaNJS(v) == v.t = "number" /\ v.cls = "nan"

\* ------------------------------------------------------------------------
\* toPascalCase (helpers/strings.helpers.ts), character by character
\* ------------------------------------------------------------------------

UpperChars == << "A", "B", "C", "D", "E", "F", "G", "H", "I", "J", "K", "L", "M", "N", "O", "P", "Q", "R", "S", "T", "U", "V", "W", "X", "Y", "Z" >>
LowerChars == << "a", "b", "c", "d", "e", "f", "g", "h", "i", "j", "k", "l", "m", "n", "o", "p", "q", "r", "s", "t", "u", "v", "w", "x", "y", "z" >>
\* \p{Lu}, \p{Ll}, \p{L}, \w
IsUpper(c) == \E i \in DOMAIN UpperChars : UpperChars[i] = c
IsLower(c) == \E i \in DOMAIN LowerChars : LowerChars[i] = c
IsLetter(c) == IsUpper(c) \/ IsLower(c)
IsWordChar(c) == IsLetter(c) \/ IsDigit(c) \/ c = "_"
\* toUpperCase / toLowerCase of one character
ToUpperChar(c) == IF IsLower(c) THEN UpperChars[CHOOSE i \in DOMAIN LowerChars : LowerChars[i] = c] ELSE c
ToLowerChar(c) == IF IsUpper(c) THEN LowerChars[CHOOSE i \in DOMAIN UpperChars : UpperChars[i] = c] ELSE c

\* the character classes of the regular expressions: \p{Lu}, \p{Ll},
\* \p{L} and \d
InClass(c, class) ==
  CASE class = "Lu" -> IsUpper(c)
    [] class = "Ll" -> IsLower(c)
    [] class = "L" -> IsLetter(c)
    [] class = "d" -> IsDigit(c)

\* the length of the longest run of characters of a class that starts at i
Run(cs, i, class) ==
  LET S == { k \in 0..(Len(cs) + 1 - i) : \A j \in i..(i + k - 1) : InClass(cs[j], class) }
  IN IF i > Len(cs) THEN 0 ELSE CHOOSE k \in S : \A m \in S : m <= k

\* /\p{Lu}\p{Ll}+/ at position i: the length of the match, 0 for none
CapitalizedWordAt(cs, i) ==
  IF i <= Len(cs) /\ IsUpper(cs[i]) /\ Run(cs, i + 1, "Ll") >= 1
  THEN 1 + Run(cs, i + 1, "Ll") ELSE 0

\* /\p{Lu}+(?=(\p{Lu}\p{Ll})|\P{L}|\b)/ at position i: the longest run of
\* capitals after which the lookahead holds
AcronymAt(cs, i) ==
  LET m == Run(cs, i, "Lu")
      Lookahead(j) ==
        \/ j + 1 <= Len(cs) /\ IsUpper(cs[j]) /\ IsLower(cs[j + 1])
        \/ j <= Len(cs) /\ ~IsLetter(cs[j])
        \/ j > Len(cs) \/ ~IsWordChar(cs[j])
      K == { k \in 1..m : Lookahead(i + k) }
  IN IF K = {} THEN 0 ELSE CHOOSE k \in K : \A n \in K : n <= k

\* WORD_OR_NUMBER_REGEXP at position i: the first alternative that matches
WordOrNumberAt(cs, i) ==
  IF CapitalizedWordAt(cs, i) > 0 THEN CapitalizedWordAt(cs, i)
  ELSE IF AcronymAt(cs, i) > 0 THEN AcronymAt(cs, i)
  ELSE IF Run(cs, i, "Ll") > 0 THEN Run(cs, i, "Ll")
  ELSE IF Run(cs, i, "L") > 0 THEN Run(cs, i, "L")
  ELSE Run(cs, i, "d")

\* input.match(WORD_OR_NUMBER_REGEXP) ?? [], with the g flag
RECURSIVE splitToWordsFrom(_, _)
splitToWordsFrom(cs, i) ==
  IF i > Len(cs) THEN <<>>
  ELSE LET n == WordOrNumberAt(cs, i)
       IN IF n = 0 THEN splitToWordsFrom(cs, i + 1)
          ELSE <<SubSeq(cs, i, i + n - 1)>> \o splitToWordsFrom(cs, i + n)
splitToWords(input) == splitToWordsFrom(input, 1)

\* word[0].toUpperCase() + word.slice(1).toLowerCase()
capitalizeWord(word) ==
  IF word = <<>> THEN word
  ELSE <<ToUpperChar(word[1])>> \o [k \in 1..(Len(word) - 1) |-> ToLowerChar(word[k + 1])]

\* input.trim()
RECURSIVE TrimEnd(_)
TrimEnd(cs) == IF Len(cs) > 0 /\ IsSpace(cs[Len(cs)]) THEN TrimEnd(SubSeq(cs, 1, Len(cs) - 1)) ELSE cs
Trim(cs) == TrimEnd(SkipSpaces(cs))

\* words.join("")
RECURSIVE JoinWords(_)
JoinWords(ws) == IF ws = <<>> THEN <<>> ELSE Head(ws) \o JoinWords(Tail(ws))

toPascalCase(input) ==
  LET ws == splitToWords(Trim(input))
  IN JoinWords([k \in DOMAIN ws |-> capitalizeWord(ws[k])])

\* ------------------------------------------------------------------------
\* The guard factory: createTypeGuard and what it derives from a parser
\* ------------------------------------------------------------------------

\* mutant: an exception of the parser is caught and counted as a rejection
callbackCatches(r) == IF IsThrow(r) THEN False ELSE JSBool(r /= Null)

\* callback: parse(value, helpers) !== null
callback(r) == IF IsThrow(r) THEN r ELSE JSBool(r /= Null)

\* mutant: the left result is tested for truthiness instead of !== null
orParserTruthy(r1, r2) == IF IsThrow(r1) THEN r1 ELSE IF Truthy(r1) THEN r1 ELSE r2

\* the parser of callback.or(guard): r1 is the left parser's result, r2 the
\* right parser's, which is only used when r1 is null
orParser(r1, r2) == IF IsThrow(r1) THEN r1 ELSE IF r1 /= Null THEN r1 ELSE r2

\* mutant: the refinement runs without the base guard's verdict
extendParserUnguarded(c, r2) == IF IsThrow(c) THEN c ELSE r2

\* the parser of extend(parseTwo): c is callback(v), r2 is parseTwo(v, h)
extendParser(c, r2) == IF IsThrow(c) THEN c ELSE IF ~Truthy(c) THEN Null ELSE r2

\* mutant: the emptiness test is left out
notEmptyCallbackOnly(e, c) == IF IsThrow(e) THEN e ELSE c

\* notEmpty: !isEmpty(value) && callback(value)
notEmpty(e, c) == IF IsThrow(e) THEN e ELSE IF Truthy(e) THEN False ELSE c

\* optional: isUndefined(value) || callback(value)
optional(u, c) == IF IsThrow(u) THEN u ELSE IF Truthy(u) THEN True ELSE c

\* mutant: a failed check is returned instead of thrown
createStrictTypeGuardReturns(p, name, errorMsg) == IF IsThrow(p) THEN p ELSE JSBool(Truthy(p))

\* createStrictTypeGuard(parse)(value, errorMsg): p is parse(value), name is
\* parse.name; the message is errorMsg ?? the default
createStrictTypeGuard(p, name, errorMsg) ==
  IF IsThrow(p) THEN p
  ELSE IF ~Truthy(p)
    THEN Throw(IF errorMsg \notin {Undefined, Null} THEN errorMsg.s
               ELSE <<"Type guard failed. Parser ", name, " returned null.">>)
  ELSE True

\* createAssertTypeGuard(guard) returns guard itself
createAssertTypeGuard(s) == s

Success(v) == [t |-> "result", ok |-> TRUE, value |-> v, issues |-> <<>>]
Failure == [t |-> "result", ok |-> FALSE, value |-> Undefined, issues |-> <<[message |-> "Invalid type"]>>]

\* mutant: the success result carries the check's verdict, not the input
validateVerdict(c, v) == IF IsThrow(c) THEN c ELSE IF Truthy(c) THEN Success(c) ELSE Failure

\* validate: callback(value) ? { value } : { issues: [{ message: `Invalid type` }] }
validate(c, v) == IF IsThrow(c) THEN c ELSE IF Truthy(c) THEN Success(v) ELSE Failure

\* ------------------------------------------------------------------------
\* The built-in catalogue: each parser, and the guard made from it
\* ------------------------------------------------------------------------

isBooleanParser(t) == IF TypeOf(t) = "boolean" THEN t ELSE Null
isBoolean(t) == callback(isBooleanParser(t))

isStringParser(t) == IF TypeOf(t) = "string" THEN t ELSE Null
isString(t) == callback(isStringParser(t))

isNumberParser(t) == IF TypeOf(t) = "number" THEN t ELSE Null
isNumber(t) == callback(isNumberParser(t))

isBinaryParser(t) == IF t = Num(1) \/ t = Num(0) THEN t ELSE Null

\* the last line of isNumeric's parser: u is parseInt(t) || parseFloat(t)
isNumericParsed(t, u) == IF ~IsNaNJS(u) /\ Truthy(isNumber(u)) THEN t ELSE Null
\* m is NUMERIC_REGEX.test(t)
isNumericMatched(t, m) ==
  IF IsThrow(m) THEN m
  ELSE IF ~Truthy(m) THEN Null
  ELSE isNumericParsed(t, IF Truthy(ParseIntJS(t)) THEN ParseIntJS(t) ELSE ParseFloatJS(t))
isNumericParser(t) ==
  IF Truthy(isNumber(t)) THEN t ELSE isNumericMatched(t, NumericRegexTest(t))

isFunctionParser(t) == IF TypeOf(t) = "function" THEN t ELSE Null
isFunction(t) == callback(isFunctionParser(t))

isUndefinedParser(t) == IF TypeOf(t) = "undefined" THEN t ELSE Null
isUndefined(t) == callback(isUndefinedParser(t))

isNullParser(t) == IF t = Null THEN True ELSE Null
isNull(t) == callback(isNullParser(t))

isJsonPrimitiveParser(t) ==
  IF Truthy(isBoolean(t)) \/ Truthy(isString(t)) \/ Truthy(isNumber(t)) \/ Truthy(isNull(t))
  THEN True ELSE Null
isJsonPrimitive(t) == callback(isJsonPrimitiveParser(t))

isObjectParser(t) ==
  IF Truthy(t) /\ TypeOf(t) = "object" /\ ~IsArrayJS(t) THEN t ELSE Null

isArrayParser(t) == IF IsArrayJS(t) THEN t ELSE Null

isJsonArrayParser(t) == IF IsArrayJS(t) THEN t ELSE Null
isJsonArray(t) == callback(isJsonArrayParser(t))

RECURSIVE isJsonObjectParser(_)
RECURSIVE isJsonValueParser(_)
isJsonObjectParser(t) ==
  IF Truthy(t) /\ TypeOf(t) = "object" /\ ProtoOf(t) = "Object"
  THEN IF \E i \in DOMAIN ObjectValues(t) : ~Truthy(callback(isJsonValueParser(ObjectValues(t)[i])))
       THEN Null ELSE t
  ELSE Null
isJsonValueParser(t) ==
  IF Truthy(isJsonPrimitive(t)) \/ Truthy(isJsonArray(t)) \/ Truthy(callback(isJsonObjectParser(t)))
  THEN (IF t \in {Null, Undefined} THEN True ELSE t)
  ELSE Null

isDateParser(t) == IF t.t = "object" /\ t.proto = "Date" THEN t ELSE Null

isNilParser(t) == orParser(isNullParser(t), isUndefinedParser(t))
isNil(t) == callback(isNilParser(t))

\* mutant: the prototype is not looked at
isEmptyRecordAnyPrototype(t) ==
  IF Truthy(t) /\ TypeOf(t) = "object" /\ ~IsArrayJS(t) /\ Len(ObjectKeys(t)) = 0
  THEN t ELSE Null

isEmptyRecordParser(t) ==
  IF Truthy(t) /\ TypeOf(t) = "object" /\ ProtoOf(t) = "Object" /\ Len(ObjectKeys(t)) = 0
  THEN t ELSE Null

isEmptyArrayParser(t) == IF IsArrayJS(t) /\ Len(t.items) = 0 THEN t ELSE Null

isEmptyStringParser(t) == IF t = Str(<<>>) THEN t ELSE Null

\* isNull.or(isUndefined).or(isEmptyString).or(isEmptyArray).or(isEmptyRecord)
isEmptyParser(t) ==
  orParser(orParser(orParser(orParser(isNullParser(t), isUndefinedParser(t)),
                             isEmptyStringParser(t)),
                    isEmptyArrayParser(t)),
           isEmptyRecordParser(t))
isEmpty(t) == callback(isEmptyParser(t))

isIterableParser(t) ==
  IF TypeOf(t) = "object" /\ ~Truthy(isNil(t)) /\ HasIn(t, "Symbol.iterator")
     /\ Truthy(isFunction(GetProp(t, "Symbol.iterator")))
  THEN t ELSE Null

\* t.constructor.name: a function without a prototype has no constructor,
\* and reading .name of undefined throws
isAsyncFunctionParser(t) ==
  IF TypeOf(t) = "function"
  THEN IF t.proto = "null" THEN Throw(<<"Cannot read properties of undefined (reading 'name')">>)
       ELSE IF t.proto = "AsyncFunction" THEN t ELSE Null
  ELSE Null

isPromiseParser(t) == IF t.t = "object" /\ t.proto = "Promise" THEN t ELSE Null

isPromiseLikeParser(t) ==
  IF Truthy(t) /\ TypeOf(t) = "object" /\ HasIn(t, "then")
     /\ TypeOf(GetProp(t, "then")) = "function"
  THEN t ELSE Null

\* ------------------------------------------------------------------------
\* modules/http.ts
\* ------------------------------------------------------------------------

\* String.prototype.split(sep) on a character sequence
RECURSIVE SplitOn(_, _)
SplitOn(cs, sep) ==
  IF \A i \in DOMAIN cs : cs[i] /= sep THEN <<cs>>
  ELSE LET d == CHOOSE i \in DOMAIN cs : cs[i] = sep /\ \A j \in 1..(i - 1) : cs[j] /= sep
       IN <<SubSeq(cs, 1, d - 1)>> \o SplitOn(SubSeq(cs, d + 1, Len(cs)), sep)

\* v.match(IPV4_REGEX): the four captured octets, or Null. The pattern is
\* anchored at both ends and captures four runs of one to three decimal
\* digits separated by single dots.
IPV4_REGEX(cs) ==
  IF /\ Len(SplitOn(cs, ".")) = 4
     /\ \A i \in 1..4 : /\ Len(SplitOn(cs, ".")[i]) \in 1..3
                        /\ AllDigits(SplitOn(cs, ".")[i])
  THEN [t |-> "match", groups |-> SplitOn(cs, ".")] ELSE Null

\* the test every captured octet must pass, for num = parseInt(octet, 10)
isIpv4OctetInRangeOnly(octet, num) ==
  num.cls = "fin" /\ num.n >= 0 /\ num.n <= 255
isIpv4Octet(octet, num) ==
  num.cls = "fin" /\ num.n >= 0 /\ num.n <= 255 /\ octet = ToStringJS(num).s

isIpv4Matched(v, match) ==
  IF /\ match /= Null
     /\ \A i \in DOMAIN match.groups :
          isIpv4Octet(match.groups[i], ParseIntString(Str(match.groups[i])))
  THEN v ELSE Null
isIpv4Parser(v) ==
  IF v.t /= "string" THEN Null
  ELSE IF Len(v.s) > 15 THEN Null
  ELSE isIpv4Matched(v, IPV4_REGEX(v.s))

\* ------------------------------------------------------------------------
\* Parsers and refinements a caller supplies
\* ------------------------------------------------------------------------

\* A parser for the type string | null written to the Parser<T> contract
\* "returns T or null": (v) => v === null || typeof v === "string" ? v : null.
\* NullableStringMatches is the branch the parser takes, NullableStringParser
\* the value it returns.
NullableStringMatches(v) == v = Null \/ TypeOf(v) = "string"
NullableStringParser(v) == IF NullableStringMatches(v) THEN v ELSE Null

\* val.length
LengthOf(val) ==
  CASE val.t \in {"null", "undefined"} -> Throw(<<"Cannot read properties of ", val.t, " (reading 'length')">>)
    [] val.t = "string" -> Num(Len(val.s))
    [] val.t = "array" -> Num(Len(val.items))
    [] OTHER -> Undefined

\* a relational comparison with a number; undefined compares false
LengthAtLeast(len, k) == len.t = "number" /\ len.n >= k

\* (val) => val.length > 0 ? val : null
nonEmptyRefinement(val) ==
  LET len == LengthOf(val)
  IN IF IsThrow(len) THEN len ELSE IF LengthAtLeast(len, 1) THEN val ELSE Null

\* (val) => val.length >= 5 ? val : null
minLength5Refinement(val) ==
  LET len == LengthOf(val)
  IN IF IsThrow(len) THEN len ELSE IF LengthAtLeast(len, 5) THEN val ELSE Null

\* (v) => v === "meatball" ? v : null, and the same for "sausage"
Meatball == Str(<<"m", "e", "a", "t", "b", "a", "l", "l">>)
Sausage == Str(<<"s", "a", "u", "s", "a", "g", "e">>)
MeatballParser(v) == IF v = Meatball THEN v ELSE Null
SausageParser(v) == IF v = Sausage THEN v ELSE Null

UserParsers == {"NullableString"}
Refinements == {"nonEmpty", "minLength5"}

\* ------------------------------------------------------------------------
\* Guards as objects: the catalogue built at module load, followed by the
\* guards the caller creates.  A guard is a closure over its parser
\* (kind "parser"), over two guards (kind "or") or over a guard and a
\* refinement parser (kind "extend"); a and b index the guards closed over.
\* ------------------------------------------------------------------------

Node(kind, name, a, b) == [kind |-> kind, name |-> name, a |-> a, b |-> b]

CatalogueNames ==
  << "isBoolean", "isString", "isNumber", "isBinary", "isNumeric", "isFunction",
     "isUndefined", "isJsonPrimitive", "isObject", "isJsonObject", "isArray",
     "isJsonArray", "isJsonValue", "isDate", "isNull", "isNil", "isEmptyRecord",
     "isEmptyArray", "isEmptyString", "isEmpty", "isIterable", "isAsyncFunction",
     "isPromise", "isPromiseLike", "isIpv4" >>

Catalogue == [i \in DOMAIN CatalogueNames |-> Node("parser", CatalogueNames[i], 0, 0)]
CatalogueGuards == DOMAIN Catalogue
Is(name) == CHOOSE i \in CatalogueGuards : CatalogueNames[i] = name

\* parse(value, helpers) for a parser given by name
ApplyParser(name, v) ==
  CASE name = "isBoolean" -> isBooleanParser(v)
    [] name = "isString" -> isStringParser(v)
    [] name = "isNumber" -> isNumberParser(v)
    [] name = "isBinary" -> isBinaryParser(v)
    [] name = "isNumeric" -> isNumericParser(v)
    [] name = "isFunction" -> isFunctionParser(v)
    [] name = "isUndefined" -> isUndefinedParser(v)
    [] name = "isJsonPrimitive" -> isJsonPrimitiveParser(v)
    [] name = "isObject" -> isObjectParser(v)
    [] name = "isJsonObject" -> isJsonObjectParser(v)
    [] name = "isArray" -> isArrayParser(v)
    [] name = "isJsonArray" -> isJsonArrayParser(v)
    [] name = "isJsonValue" -> isJsonValueParser(v)
    [] name = "isDate" -> isDateParser(v)
    [] name = "isNull" -> isNullParser(v)
    [] name = "isNil" -> isNilParser(v)
    [] name = "isEmptyRecord" -> isEmptyRecordParser(v)
    [] name = "isEmptyArray" -> isEmptyArrayParser(v)
    [] name = "isEmptyString" -> isEmptyStringParser(v)
    [] name = "isEmpty" -> isEmptyParser(v)
    [] name = "isIterable" -> isIterableParser(v)
    [] name = "isAsyncFunction" -> isAsyncFunctionParser(v)
    [] name = "isPromise" -> isPromiseParser(v)
    [] name = "isPromiseLike" -> isPromiseLikeParser(v)
    [] name = "isIpv4" -> isIpv4Parser(v)
    [] name = "NullableString" -> NullableStringParser(v)
    [] name = "MeatballParser" -> MeatballParser(v)
    [] name = "SausageParser" -> SausageParser(v)

ApplyRefinement(name, v) ==
  CASE name = "nonEmpty" -> nonEmptyRefinement(v)
    [] name = "minLength5" -> minLength5Refinement(v)

\* callback._.parser of guard i
RECURSIVE Parser(_, _, _)
Parser(gs, i, v) ==
  LET n == gs[i]
  IN CASE n.kind = "parser" -> ApplyParser(n.name, v)
       [] n.kind = "or" -> orParser(Parser(gs, n.a, v), Parser(gs, n.b, v))
       [] n.kind = "extend" -> extendParser(callback(Parser(gs, n.a, v)), ApplyRefinement(n.name, v))

\* the guard called as a plain predicate, and its derived forms
Guard(gs, i, v) == callback(Parser(gs, i, v))
GuardNotEmpty(gs, i, v) == notEmpty(isEmpty(v), Guard(gs, i, v))
\* mutant: optional also lets null through (isNil in place of isUndefined)
GuardOptionalNil(gs, i, v) == optional(isNil(v), Guard(gs, i, v))
GuardOptional(gs, i, v) == optional(isUndefined(v), Guard(gs, i, v))

\* a guard passed as an argument, by reference
GuardRef(i) == [t |-> "guard", ref |-> i]

\* mutant: only own keys count (Object.hasOwn in place of `in`)
hasPropertyOwn(gs, t, k, guard) ==
  IF k \notin OwnKeys(t) THEN False
  ELSE IF Truthy(guard) THEN Guard(gs, guard.ref, GetProp(t, k)) ELSE True

\* hasProperty(t, k, guard?): guard is undefined when left out
hasProperty(gs, t, k, guard) ==
  IF ~HasIn(t, k) THEN False
  ELSE IF Truthy(guard) THEN Guard(gs, guard.ref, GetProp(t, k)) ELSE True

\* ------------------------------------------------------------------------
\* Registries: objects whose properties are guards (the Is library, what
\* extend and batch return).  keys are the property names in insertion
\* order, vals the guards they are bound to, as indices into AllGuards.
\* ------------------------------------------------------------------------

Registry(keys, vals) == [keys |-> keys, vals |-> vals]
HasKey(o, k) == \E i \in DOMAIN o.keys : o.keys[i] = k
KeyIndex(o, k) == CHOOSE i \in DOMAIN o.keys : o.keys[i] = k
\* o[k], for a key o has
Lookup(o, k) == o.vals[KeyIndex(o, k)]
\* o[k] = x: an existing property keeps its place and takes the new value
SetProp(o, k, x) ==
  IF HasKey(o, k) THEN Registry(o.keys, [o.vals EXCEPT ![KeyIndex(o, k)] = x])
  ELSE Registry(Append(o.keys, k), Append(o.vals, x))

\* the properties keys[i..] -> vals[i..] assigned to target one after another
RECURSIVE AssignAll(_, _, _, _)
AssignAll(target, keys, vals, i) ==
  IF i > Len(keys) THEN target
  ELSE AssignAll(SetProp(target, keys[i], vals[i]), keys, vals, i + 1)

\* Object.fromEntries(entries)
ObjectFromEntries(keys, vals) == AssignAll(Registry(<<>>, <<>>), keys, vals, 1)

\* { ...target, ...source }
SpreadInto(target, source) == AssignAll(target, source.keys, source.vals, 1)

\* the Is library of mod.ts.  Is.Tuple is left out: isTuple takes a length
\* and is not made by createTypeGuard.
IsRegistry ==
  Registry(
  << <<"B", "o", "o", "l", "e", "a", "n">>,
     <<"S", "t", "r", "i", "n", "g">>,
     <<"N", "u", "m", "b", "e", "r">>,
     <<"B", "i", "n", "a", "r", "y">>,
     <<"N", "u", "m", "e", "r", "i", "c">>,
     <<"F", "u", "n", "c", "t", "i", "o", "n">>,
     <<"O", "b", "j", "e", "c", "t">>,
     <<"U", "n", "d", "e", "f", "i", "n", "e", "d">>,
     <<"A", "r", "r", "a", "y">>,
     <<"J", "s", "o", "n", "P", "r", "i", "m", "i", "t", "i", "v", "e">>,
     <<"J", "s", "o", "n", "A", "r", "r", "a", "y">>,
     <<"J", "s", "o", "n", "O", "b", "j", "e", "c", "t">>,
     <<"J", "s", "o", "n", "V", "a", "l", "u", "e">>,
     <<"N", "u", "l", "l">>,
     <<"N", "i", "l">>,
     <<"E", "m", "p", "t", "y">> >>,
  << Is("isBoolean"),
     Is("isString"),
     Is("isNumber"),
     Is("isBinary"),
     Is("isNumeric"),
     Is("isFunction"),
     Is("isObject"),
     Is("isUndefined"),
     Is("isArray"),
     Is("isJsonPrimitive"),
     Is("isJsonArray"),
     Is("isJsonObject"),
     Is("isJsonValue"),
     Is("isNull"),
     Is("isNil"),
     Is("isEmpty") >>)

\* a config: the names and, for each, the parser given under it
Config(keys, parsers) == [t |-> "config", keys |-> keys, parsers |-> parsers]

\* ------------------------------------------------------------------------
\* Inputs
\* ------------------------------------------------------------------------

EmptyArray == Arr(<<>>)
EmptyObject == Obj("Object", <<>>, <<>>)
Function == Fn("Function")
Date == Obj("Date", <<>>, <<>>)
Hello == Str(<<"h", "e", "l", "l", "o">>)

Primitives ==
  { Null, Undefined, True, False, Str(<<>>), Str(<<"a">>), Str(<<"5">>), Str(<<" ">>),
    Str(<<"-", "3", ".", "1">>), Hello, Num(0), Num(1), Num(5), NaN, Infinity, Sym,
    NegInfinity, Num(0 - 7), Str(<<"0">>), Str(<<"-", "4", "2">>), Str(<<"3", ".", "1", "4">>),
    Str(<<"a", "b", "c">>), Str(<<"1", "2", "3", "a", "b", "c">>), Str(<<"5", ".">>) }

Functions == { Function, Fn("AsyncFunction"), Fn("null"), FnWith("Function", <<"then">>, <<Function>>) }

Objects ==
  { EmptyObject, Date,
    Obj("null", <<>>, <<>>),
    Obj("Class", <<"a">>, <<Num(1)>>),
    Obj("Promise", <<>>, <<>>),
    Obj("Object", <<"then">>, <<Function>>),
    Obj("Object", <<"a">>, <<Obj("Object", <<"b">>, <<Arr(<<Num(1), Str(<<"x">>), Null, True>>)>>)>>),
    Obj("Object", <<"a">>, <<Function>>),
    Obj("Object", <<"a">>, <<Date>>),
    Obj("Object", <<"a">>, <<Obj("Object", <<"b">>, <<Undefined>>)>>),
    Obj("Object", <<"a">>, <<Arr(<<Undefined>>)>>),
    Obj("Object", <<"a", "b">>, <<Num(1), Arr(<<Obj("Object", <<"c">>, <<Function>>)>>)>>) }

Arrays ==
  { EmptyArray, Arr(<<Num(5)>>), Arr(<<Str(<<"7">>)>>),
    Arr(<<Num(1), Str(<<"a">>), True, Null>>),
    Arr(<<Num(1), Arr(<<Num(2), Arr(<<Num(3)>>)>>)>>),
    Arr(<<Undefined>>), Arr(<<Function>>), Arr(<<Sym>>), Arr(<<Date>>),
    Arr(<<Num(5), Arr(<<Function>>)>>),
    Arr(<<Obj("Object", <<"a">>, <<Undefined>>)>>) }

\* the inputs given to the catalogue guards
Values == Primitives \cup Functions \cup Objects \cup Arrays

\* the inputs given to the guards a caller creates
AlgValues ==
  { Null, Undefined, Str(<<>>), Str(<<"a">>), Hello, Num(5), EmptyArray, Arr(<<Num(5)>>), Sym }

\* the errorMsg argument of strict and assert: left out, or given
CustomMessage == Str(<<"C", "u", "s", "t", "o", "m">>)
ErrorMsgs == { Undefined, CustomMessage }

\* the catalogue guards a caller combines with or / extend
OperandBase == { Is("isString"), Is("isNumeric") }

\* the arguments given to hasProperty: objects of every kind, keys they
\* have, inherit or lack, and the guard, which may be left out
PropertyHolders ==
  Objects \cup Arrays \cup Functions
  \cup { Obj("Object", <<"a", "b", "c">>, <<Num(1), Str(<<"t", "e", "s", "t">>), Null>>),
         Obj("Object", <<"a">>, <<Sym>>),
         Obj("null", <<"a">>, <<Num(1)>>) }
PropertyKeys == { "a", "b", "c", "d", "then", "toString", "Symbol.iterator", "0", "length" }
PropertyGuards ==
  { Undefined, GuardRef(Is("isNumber")), GuardRef(Is("isString")), GuardRef(Is("isNull")),
    GuardRef(Is("isFunction")), GuardRef(Is("isNumeric")) }

\* the catalogue guards combined, and the inputs given, when a guard's
\* parser is called directly
ParserOperandBase == { Is("isNull"), Is("isUndefined"), Is("isJsonPrimitive"), Is("isString") }
ParserValues == { Null, Undefined, Str(<<>>), Hello, Num(5), True, EmptyArray }

\* the inputs given to isIpv4: dotted strings of three to five parts, and
\* every other kind of value
OctetTexts == { <<"0">>, <<"7">>, <<"0", "7">>, <<"2", "5", "5">>, <<"2", "5", "6">>,
                <<" ", "7">>, <<"7", " ">>, <<"a">>, <<>> }
RECURSIVE Dotted(_, _)
Dotted(parts, i) ==
  IF i = Len(parts) THEN parts[i] ELSE parts[i] \o <<".">> \o Dotted(parts, i + 1)
PlainOctetTexts == { <<"0">>, <<"7">>, <<"2", "5", "5">> }
Ipv4Inputs ==
  { Str(Dotted(parts, 1)) :
      parts \in [1..3 -> OctetTexts] \cup [1..4 -> OctetTexts] \cup [1..5 -> PlainOctetTexts] }
    \cup Values

\* what a request can carry for a target (a parsed JSON body, a record of
\* strings), the targets, and the transforms given to describeInput
RequestInputs ==
  { Null, True, False, Str(<<>>), Str(<<" ">>), Str(<<"5">>), Hello, Num(0), Num(5),
    EmptyObject, EmptyArray, Arr(<<Num(5)>>), Arr(<<Num(1), Str(<<"a">>), True, Null>>),
    Obj("Object", <<"hello">>, <<Str(<<"w", "o", "r", "l", "d">>)>>),
    Obj("Object", <<"a">>, <<Obj("Object", <<"b">>, <<Arr(<<Num(1), Null>>)>>)>>) }
Targets == { "json", "query", "form" }
TransformFns == { "undefined", "String", "Boolean" }

\* the inputs given to the guards of a registry
RegistryValues == { Meatball, Sausage, Str(<<>>), Num(1), Null, Undefined }

\* the parsers given to extend and batch
RegistryParsers == { "MeatballParser", "SausageParser" }

\* the configs over a set of names: one entry, or two entries under
\* different names
Configs(names) ==
  { Config(<<n>>, <<q>>) : n \in names, q \in RegistryParsers }
  \cup { Config(<<c[1], c[2]>>, <<c[3], c[4]>>) :
           c \in { d \in names \X names \X RegistryParsers \X RegistryParsers : d[1] /= d[2] } }

\* names given to extend: two new ones, and one the Is library has
ExtendNames == { <<"M", "e", "a", "t", "b", "a", "l", "l">>, <<"S", "a", "u", "s", "a", "g", "e">>, <<"S", "t", "r", "i", "n", "g">> }

\* names given to batch, in several casings and with several separators
BatchNames ==
  { <<"M", "e", "a", "t", "b", "a", "l", "l">>, <<"s", "p", "a", "g", "h", "e", "t", "t", "i">>, <<"u", "s", "e", "r", "-", "r", "o", "l", "e">>, <<"A", "d", "m", "i", "n", "R", "o", "l", "e">>, <<"u", "s", "e", "r", "_", "r", "o", "l", "e">>, <<"u", "s", "e", "r", "R", "o", "l", "e">> }

\* ------------------------------------------------------------------------
\* State
\* ------------------------------------------------------------------------

VARIABLES
  guards,      \* the guards the caller has created, in order of creation
  last,        \* the most recent invocation: operation, guard, input, outcome
  registries   \* the registry objects that exist; the first is the Is library

vars == <<guards, last, registries>>

\* every guard that exists: the catalogue, which is built at module load and
\* never changes, followed by the caller's guards
AllGuards == Catalogue \o guards

UserGuards == { Len(Catalogue) + i : i \in DOMAIN guards }
Operands == OperandBase \cup UserGuards

Invocation(op, g, v, out) == [op |-> op, g |-> g, v |-> v, out |-> out]
\* an invocation that also takes errorMsg
StrictInvocation(op, g, v, errorMsg, out) == [op |-> op, g |-> g, v |-> v, msg |-> errorMsg, out |-> out]

\* The library is synchronous and single-threaded: the caller performs one
\* invocation at a time, and takes its outcome before doing anything else.
NoInvocation == Invocation("none", 0, Undefined, Undefined)
Idle == last = NoInvocation

Init ==
  /\ guards = <<>>
  /\ last = NoInvocation
  /\ registries = <<IsRegistry>>

\* ------------------------------------------------------------------------
\* Operations that create guards
\* ------------------------------------------------------------------------

CanCreate == Idle /\ Len(guards) < MaxUserGuards

\* createTypeGuard(parse)
createTypeGuard(p) ==
  /\ CanCreate
  /\ guards' = Append(guards, Node("parser", p, 0, 0))
  /\ UNCHANGED <<last, registries>>

\* mutant: g1 also takes over the parser of g2 (callback._.parser is
\* assigned on the guard .or is called on)
orOverwritesLeft(g1, g2) ==
  /\ CanCreate
  /\ guards' = Append(IF g1 \in UserGuards
                        THEN [guards EXCEPT ![g1 - Len(Catalogue)] = AllGuards[g2]]
                        ELSE guards,
                      Node("or", "", g1, g2))
  /\ UNCHANGED <<last, registries>>

\* g1.or(g2)
or(g1, g2) ==
  /\ CanCreate
  /\ guards' = Append(guards, Node("or", "", g1, g2))
  /\ UNCHANGED <<last, registries>>

\* g.extend(parseTwo)
extend(g, parseTwo) ==
  /\ CanCreate
  /\ guards' = Append(guards, Node("extend", parseTwo, g, 0))
  /\ UNCHANGED <<last, registries>>

\* ------------------------------------------------------------------------
\* Operations that create registries
\* ------------------------------------------------------------------------

\* createTypeGuard(parser) for every entry of config, in order: the guards
\* made, and where they are once made
EntryGuards(config) == [i \in DOMAIN config.keys |-> Node("parser", config.parsers[i], 0, 0)]
EntryRefs(config) == [i \in DOMAIN config.keys |-> Len(AllGuards) + i]

CanCreateFor(config) == Idle /\ Len(guards) + Len(config.keys) <= MaxUserGuards

RegistryRef(n, args) == [t |-> "registry", ref |-> n, args |-> args]

\* mutant: the entries are assigned to the registry passed in, which is
\* returned (Object.assign(is, entries))
extendRegistryInPlace(args) ==
  LET config == IF Len(args) >= 2 THEN args[2] ELSE args[1]
      is == IF Len(args) >= 2 THEN args[1] ELSE 1
      entries == ObjectFromEntries(config.keys, EntryRefs(config))
  IN /\ CanCreateFor(config)
     /\ guards' = guards \o EntryGuards(config)
     /\ registries' = [registries EXCEPT ![is] = SpreadInto(registries[is], entries)]
     /\ last' = Invocation("extend", is, config, RegistryRef(is, Len(args)))

\* extend(config) and extend(is, config); args are the arguments, a registry
\* being passed by reference (its index in registries)
extendRegistry(args) ==
  LET config == IF Len(args) >= 2 THEN args[2] ELSE args[1]
      is == IF Len(args) >= 2 THEN args[1] ELSE 1
      entries == ObjectFromEntries(config.keys, EntryRefs(config))
  IN /\ CanCreateFor(config)
     /\ guards' = guards \o EntryGuards(config)
     /\ registries' = Append(registries, SpreadInto(entries, registries[is]))
     /\ last' = Invocation("extend", is, config, RegistryRef(Len(registries) + 1, Len(args)))

IsPrefix == <<"i", "s">>

\* batch(config)
batch(config) ==
  LET keys == [i \in DOMAIN config.keys |-> IsPrefix \o toPascalCase(config.keys[i])]
  IN /\ CanCreateFor(config)
     /\ guards' = guards \o EntryGuards(config)
     /\ registries' = Append(registries, ObjectFromEntries(keys, EntryRefs(config)))
     /\ last' = Invocation("batch", 0, config, RegistryRef(Len(registries) + 1, 1))

\* ------------------------------------------------------------------------
\* Operations that invoke a guard
\* ------------------------------------------------------------------------

\* g(v)
CallGuard(g, v) ==
  /\ Idle
  /\ last' = Invocation("call", g, v, Guard(AllGuards, g, v))
  /\ UNCHANGED <<guards, registries>>

\* g.strict(v, errorMsg)
CallStrict(g, v, errorMsg) ==
  /\ Idle
  /\ last' = StrictInvocation("strict", g, v, errorMsg,
                              createStrictTypeGuard(Guard(AllGuards, g, v), "callback", errorMsg))
  /\ UNCHANGED <<guards, registries>>

\* g.assert(v, errorMsg)
CallAssert(g, v, errorMsg) ==
  /\ Idle
  /\ last' = StrictInvocation("assert", g, v, errorMsg,
                              createAssertTypeGuard(
                                createStrictTypeGuard(Guard(AllGuards, g, v), "callback", errorMsg)))
  /\ UNCHANGED <<guards, registries>>

\* g.validate(v)
CallValidate(g, v) ==
  /\ Idle
  /\ last' = Invocation("validate", g, v, validate(Guard(AllGuards, g, v), v))
  /\ UNCHANGED <<guards, registries>>

\* g["~standard"].validate(v)
CallStandardValidate(g, v) ==
  /\ Idle
  /\ last' = Invocation("~standard.validate", g, v, validate(Guard(AllGuards, g, v), v))
  /\ UNCHANGED <<guards, registries>>

\* g.optional(v)
CallOptional(g, v) ==
  /\ Idle
  /\ last' = Invocation("optional", g, v, GuardOptional(AllGuards, g, v))
  /\ UNCHANGED <<guards, registries>>

\* g.optional.strict(v, errorMsg)
CallOptionalStrict(g, v, errorMsg) ==
  /\ Idle
  /\ last' = StrictInvocation("optional.strict", g, v, errorMsg,
                              createStrictTypeGuard(GuardOptional(AllGuards, g, v), "optional", errorMsg))
  /\ UNCHANGED <<guards, registries>>

\* g.notEmpty(v)
CallNotEmpty(g, v) ==
  /\ Idle
  /\ last' = Invocation("notEmpty", g, v, GuardNotEmpty(AllGuards, g, v))
  /\ UNCHANGED <<guards, registries>>

\* g.notEmpty.strict(v, errorMsg)
CallNotEmptyStrict(g, v, errorMsg) ==
  /\ Idle
  /\ last' = StrictInvocation("notEmpty.strict", g, v, errorMsg,
                              createStrictTypeGuard(GuardNotEmpty(AllGuards, g, v), "notEmpty", errorMsg))
  /\ UNCHANGED <<guards, registries>>

\* g.notEmpty.validate(v)
CallNotEmptyValidate(g, v) ==
  /\ Idle
  /\ last' = Invocation("notEmpty.validate", g, v, validate(GuardNotEmpty(AllGuards, g, v), v))
  /\ UNCHANGED <<guards, registries>>

\* The members createTypeGuard assigns to the functions it makes: the guard
\* itself (callback), its notEmpty form and its optional form
MembersOf(fn) ==
  CASE fn = "callback" -> {"_", "extend", "notEmpty", "optional", "strict", "assert", "or", "validate", "~standard"}
    [] fn = "notEmpty" -> {"strict", "assert", "validate"}
    [] fn = "optional" -> {"strict", "assert"}

\* fn.m(...) where fn has no member m: fn.m is undefined, and calling it
\* throws
NotAFunction(fn, m) == Throw(<<"g.", fn, ".", m, " is not a function">>)

\* g.optional.notEmpty(v)
CallOptionalNotEmpty(g, v) ==
  /\ Idle
  /\ "notEmpty" \notin MembersOf("optional")
  /\ last' = Invocation("optional.notEmpty", g, v, NotAFunction("optional", "notEmpty"))
  /\ UNCHANGED <<guards, registries>>

\* g.notEmpty.optional(v)
CallNotEmptyOptional(g, v) ==
  /\ Idle
  /\ "optional" \notin MembersOf("notEmpty")
  /\ last' = Invocation("notEmpty.optional", g, v, NotAFunction("notEmpty", "optional"))
  /\ UNCHANGED <<guards, registries>>

\* g1.notEmpty.or(g2) and, with asNotEmpty, g1.notEmpty.or(g2.notEmpty):
\* no guard is made
notEmptyOr(g1, g2, asNotEmpty) ==
  /\ Idle
  /\ "or" \notin MembersOf("notEmpty")
  /\ last' = Invocation("notEmpty.or", g1, [t |-> "guard", ref |-> g2, notEmpty |-> asNotEmpty],
                        NotAFunction("notEmpty", "or"))
  /\ UNCHANGED <<guards, registries>>

\* g._.parser(v, helpers)
CallParser(g, v) ==
  /\ Idle
  /\ last' = Invocation("_.parser", g, v, Parser(AllGuards, g, v))
  /\ UNCHANGED <<guards, registries>>

\* hono: describeInput(target, validationFn, transformFn) and one request
\* whose input for the target is value. out is what the validator callback
\* gave: a Response from c.json, or the value that becomes c.req.valid(target);
\* transformed lists the arguments transformFn was called with.
ApplyTransform(transformFn, value) ==
  CASE transformFn = "String" -> ToStringJS(value)
    [] transformFn = "Boolean" -> JSBool(Truthy(value))

describeInputTransformsFirst(target, validationFn, transformFn, value) ==
  /\ Idle
  /\ last' =
       [ op |-> "describeInput", g |-> validationFn, v |-> value, target |-> target,
         transformFn |-> transformFn,
         transformed |-> IF transformFn /= "undefined" THEN <<value>> ELSE <<>>,
         out |->
           IF IsThrow(Guard(AllGuards, validationFn, value)) THEN Guard(AllGuards, validationFn, value)
           ELSE IF Guard(AllGuards, validationFn, value) = True
             THEN [t |-> "valid",
                   value |-> IF transformFn /= "undefined" THEN ApplyTransform(transformFn, value) ELSE value]
             ELSE [t |-> "response", status |-> 400,
                   message |-> <<"Input validation failed for target: ", target>>] ]
  /\ UNCHANGED <<guards, registries>>
describeInput(target, validationFn, transformFn, value) ==
  /\ Idle
  /\ last' =
       [ op |-> "describeInput", g |-> validationFn, v |-> value, target |-> target,
         transformFn |-> transformFn,
         transformed |-> IF Guard(AllGuards, validationFn, value) = True /\ transformFn /= "undefined"
                           THEN <<value>> ELSE <<>>,
         out |->
           IF IsThrow(Guard(AllGuards, validationFn, value)) THEN Guard(AllGuards, validationFn, value)
           ELSE IF Guard(AllGuards, validationFn, value) = True
             THEN [t |-> "valid",
                   value |-> IF transformFn /= "undefined" THEN ApplyTransform(transformFn, value) ELSE value]
             ELSE [t |-> "response", status |-> 400,
                   message |-> <<"Input validation failed for target: ", target>>] ]
  /\ UNCHANGED <<guards, registries>>

\* hasProperty(t, k, guard)
CallHasProperty(t, k, guard) ==
  /\ Idle
  /\ last' = [op |-> "hasProperty", g |-> IF guard = Undefined THEN 0 ELSE guard.ref,
              v |-> t, k |-> k, out |-> hasProperty(AllGuards, t, k, guard)]
  /\ UNCHANGED <<guards, registries>>

\* the invocation has returned or thrown, and the caller has its outcome
Return ==
  /\ ~Idle
  /\ last' = NoInvocation
  /\ UNCHANGED <<guards, registries>>

\* ------------------------------------------------------------------------
\* Specifications
\* ------------------------------------------------------------------------

\* A caller creates guards and invokes them, one invocation at a time
Next ==
  \/ /\ Idle
     /\ \/ \E p \in UserParsers : createTypeGuard(p)
        \/ \E g1 \in Operands, g2 \in Operands : or(g1, g2)
        \/ \E g \in Operands, r \in Refinements : extend(g, r)
        \/ \E g \in UserGuards, v \in AlgValues : CallGuard(g, v)
        \/ \E g \in UserGuards, v \in AlgValues, errorMsg \in ErrorMsgs : CallStrict(g, v, errorMsg)
        \/ \E g \in UserGuards, v \in AlgValues, errorMsg \in ErrorMsgs : CallAssert(g, v, errorMsg)
        \/ \E g \in UserGuards, v \in AlgValues : CallValidate(g, v)
        \/ \E g \in UserGuards, v \in AlgValues : CallStandardValidate(g, v)
        \/ \E g \in UserGuards, v \in AlgValues : CallOptional(g, v)
        \/ \E g \in UserGuards, v \in AlgValues, errorMsg \in ErrorMsgs : CallOptionalStrict(g, v, errorMsg)
        \/ \E g \in UserGuards, v \in AlgValues : CallNotEmpty(g, v)
        \/ \E g \in UserGuards, v \in AlgValues, errorMsg \in ErrorMsgs : CallNotEmptyStrict(g, v, errorMsg)
        \/ \E g \in UserGuards, v \in AlgValues : CallNotEmptyValidate(g, v)
  \/ Return

Spec == Init /\ [][Next]_vars

\* The catalogue guards are invoked on every kind of input
NextCat ==
  \/ /\ Idle
     /\ \/ \E g \in CatalogueGuards, v \in Values : CallGuard(g, v)
        \/ \E g \in CatalogueGuards, v \in Values, errorMsg \in ErrorMsgs : CallStrict(g, v, errorMsg)
        \/ \E g \in CatalogueGuards, v \in Values, errorMsg \in ErrorMsgs : CallAssert(g, v, errorMsg)
        \/ \E g \in CatalogueGuards, v \in Values : CallValidate(g, v)
        \/ \E g \in CatalogueGuards, v \in Values : CallStandardValidate(g, v)
        \/ \E g \in CatalogueGuards, v \in Values : CallOptional(g, v)
        \/ \E g \in CatalogueGuards, v \in Values, errorMsg \in ErrorMsgs : CallOptionalStrict(g, v, errorMsg)
        \/ \E g \in CatalogueGuards, v \in Values : CallNotEmpty(g, v)
        \/ \E g \in CatalogueGuards, v \in Values, errorMsg \in ErrorMsgs : CallNotEmptyStrict(g, v, errorMsg)
        \/ \E g \in CatalogueGuards, v \in Values : CallNotEmptyValidate(g, v)
  \/ Return

SpecCat == Init /\ [][NextCat]_vars

\* A caller builds registries with extend and batch
NextReg ==
  \/ /\ Idle
     /\ \/ \E config \in Configs(ExtendNames) : extendRegistry(<<config>>)
        \/ \E is \in DOMAIN registries, config \in Configs(ExtendNames) : extendRegistry(<<is, config>>)
        \/ \E config \in Configs(BatchNames) : batch(config)
  \/ Return

SpecReg == Init /\ [][NextReg]_vars

\* A caller combines guards and calls the parsers of the guards made
ParserOperands == ParserOperandBase \cup UserGuards

NextPar ==
  \/ /\ Idle
     /\ \/ \E p \in UserParsers : createTypeGuard(p)
        \/ \E g1 \in ParserOperands, g2 \in ParserOperands : or(g1, g2)
        \/ \E g \in ParserOperands, r \in Refinements : extend(g, r)
        \/ \E g \in UserGuards, v \in ParserValues : CallParser(g, v)
  \/ Return

SpecPar == Init /\ [][NextPar]_vars

\* A caller composes the optional and notEmpty forms
NextMode ==
  \/ /\ Idle
     /\ \/ \E p \in UserParsers : createTypeGuard(p)
        \/ \E g1 \in Operands, g2 \in Operands : or(g1, g2)
        \/ \E g \in Operands, r \in Refinements : extend(g, r)
        \/ \E g \in Operands, v \in AlgValues : CallOptionalNotEmpty(g, v)
        \/ \E g \in Operands, v \in AlgValues : CallNotEmptyOptional(g, v)
        \/ \E g1 \in Operands, g2 \in Operands, asNotEmpty \in BOOLEAN : notEmptyOr(g1, g2, asNotEmpty)
  \/ Return

SpecMode == Init /\ [][NextMode]_vars

\* A caller checks addresses
NextHttp ==
  \/ /\ Idle
     /\ \/ \E v \in Ipv4Inputs : CallGuard(Is("isIpv4"), v)
        \/ \E v \in Ipv4Inputs, errorMsg \in ErrorMsgs : CallStrict(Is("isIpv4"), v, errorMsg)
  \/ Return

SpecHttp == Init /\ [][NextHttp]_vars

\* Requests arrive at validators made by describeInput
NextHono ==
  \/ /\ Idle
     /\ \/ \E target \in Targets, validationFn \in CatalogueGuards, transformFn \in TransformFns,
              value \in RequestInputs : describeInput(target, validationFn, transformFn, value)
  \/ Return

SpecHono == Init /\ [][NextHono]_vars

\* A caller uses the utilities
NextUtil ==
  \/ /\ Idle
     /\ \/ \E t \in PropertyHolders, k \in PropertyKeys, guard \in PropertyGuards : CallHasProperty(t, k, guard)
  \/ Return

SpecUtil == Init /\ [][NextUtil]_vars

TypeOK ==
  /\ Len(guards) <= MaxUserGuards
  /\ \A i \in DOMAIN guards : guards[i].kind \in {"parser", "or", "extend"}
  /\ last.g \in 0..Len(AllGuards)
  /\ \A i \in DOMAIN registries : Len(registries[i].keys) = Len(registries[i].vals)

\* ------------------------------------------------------------------------
\* Properties
\* ------------------------------------------------------------------------

GuardFailure(name) == Throw(<<"Type guard failed. Parser ", name, " returned null.">>)
LastNode == AllGuards[last.g]
Called(op) == last.op = op

\* the TypeError of a failed strict check: the caller's message, or the
\* default one
StrictFailure(name, errorMsg) == IF errorMsg = Undefined THEN GuardFailure(name) ELSE Throw(errorMsg.s)

\* what the strict form of a predicate must do, given the predicate's
\* outcome c and the TypeError a failed check gives
StrictAgrees(c, failure, out) ==
  /\ c = False => out = failure
  /\ c = True => out = True
  /\ out = True => c = True
  /\ out = failure => c = False

\* C1: for every guard G (also one derived with or / extend) and its optional
\* and notEmpty variants, the strict form throws the guard-failure TypeError
\* exactly when the plain form returns false, and returns true exactly when
\* the plain form returns true.
C1_StrictAgreesWithPlain ==
  /\ Called("strict") =>
       StrictAgrees(Guard(AllGuards, last.g, last.v), StrictFailure("callback", last.msg), last.out)
  /\ Called("assert") =>
       StrictAgrees(Guard(AllGuards, last.g, last.v), StrictFailure("callback", last.msg), last.out)
  /\ Called("optional.strict") =>
       StrictAgrees(GuardOptional(AllGuards, last.g, last.v), StrictFailure("optional", last.msg), last.out)
  /\ Called("notEmpty.strict") =>
       StrictAgrees(GuardNotEmpty(AllGuards, last.g, last.v), StrictFailure("notEmpty", last.msg), last.out)

\* a strict call on a derived guard threw because the guard rejects the input
C1_Witness ==
  /\ Called("strict")
  /\ LastNode.kind = "extend"
  /\ Guard(AllGuards, last.g, last.v) = False
  /\ last.out.t = "throw"

\* G1(v) || G2(v), with the short circuit of ||
JsOr(c1, c2) == IF IsThrow(c1) THEN c1 ELSE IF c1 = True THEN True ELSE c2

\* C2: G1.or(G2)(v) === (G1(v) || G2(v)) for all guards G1, G2 and inputs v.
C2_OrAcceptsEither ==
  (Called("call") /\ LastNode.kind = "or") =>
     last.out = JsOr(Guard(AllGuards, LastNode.a, last.v), Guard(AllGuards, LastNode.b, last.v))

\* a union accepted an input that only its right operand accepts
C2_Witness ==
  /\ Called("call")
  /\ LastNode.kind = "or"
  /\ last.out = True
  /\ Guard(AllGuards, LastNode.a, last.v) = False
  /\ Guard(AllGuards, LastNode.b, last.v) = True

\* C3: G.notEmpty(v) === (!isEmpty(v) && G(v)).
C3_NotEmptyLaw ==
  Called("notEmpty") =>
     last.out = (IF Guard(AllGuards, Is("isEmpty"), last.v) = True
                 THEN False ELSE Guard(AllGuards, last.g, last.v))

\* notEmpty rejected an empty input that the guard itself accepts
C3_Witness ==
  /\ Called("notEmpty")
  /\ Guard(AllGuards, Is("isEmpty"), last.v) = True
  /\ Guard(AllGuards, last.g, last.v) = True
  /\ last.out = False

\* C4: G.optional(v) === (v === undefined || G(v)); null is accepted by
\* G.optional only if G accepts null.
C4_OptionalLaw ==
  Called("optional") =>
     /\ last.out = (IF last.v = Undefined THEN True ELSE Guard(AllGuards, last.g, last.v))
     /\ (last.v = Null /\ last.out = True) => Guard(AllGuards, last.g, Null) = True

\* optional accepted undefined although the guard rejects it, and the same
\* guard's optional form was asked about null
C4_Witness ==
  /\ Called("optional")
  /\ last.v = Undefined
  /\ Guard(AllGuards, last.g, last.v) = False
  /\ last.out = True
  /\ GuardOptional(AllGuards, last.g, Null) = False

\* the guards a guard was derived from by a chain of extend
RECURSIVE ExtendBases(_, _)
ExtendBases(gs, i) ==
  IF gs[i].kind = "extend" THEN {gs[i].a} \cup ExtendBases(gs, gs[i].a) ELSE {}

\* C5: if G.extend(R)(v) is true then G(v) is true, and so for every guard
\* below it in a chain G.extend(R1).extend(R2)...
C5_ExtendNarrows ==
  (Called("call") /\ last.out = True) =>
     \A b \in ExtendBases(AllGuards, last.g) : Guard(AllGuards, b, last.v) = True

\* a chain of two extensions accepted an input
C5_Witness ==
  /\ Called("call")
  /\ last.out = True
  /\ LastNode.kind = "extend"
  /\ AllGuards[LastNode.a].kind = "extend"
  /\ AllGuards[LastNode.a].name /= LastNode.name

\* C6: a guard made from a parser accepts v whenever the parser succeeded on
\* v, also when the narrowed value it returned is null, and rejects v only
\* when the parser signalled failure.
C6_NullIsNotFailure ==
  (Called("call") /\ LastNode.kind = "parser" /\ LastNode.name = "NullableString") =>
     (last.out = True <=> NullableStringMatches(last.v))

\* C7: the plain call of a catalogue guard returns a boolean on every input;
\* it never throws.
C7_PlainCallIsTotal ==
  Called("call") => last.out \in {True, False}

\* C8: G.validate(v), also as G["~standard"].validate(v), returns {value: v}
\* exactly when G(v) is true and {issues: [{message: "Invalid type"}]}
\* exactly when G(v) is false; a rejection is never thrown.
C8_ValidateResult ==
  (Called("validate") \/ Called("~standard.validate")) =>
     LET c == Guard(AllGuards, last.g, last.v)
     IN /\ c = True <=> last.out = Success(last.v)
        /\ c = False <=> last.out = Failure
        /\ Failure.issues = <<[message |-> "Invalid type"]>>
        /\ c = False => ~IsThrow(last.out)

\* validate returned the input itself as the value of a success
C8_Witness ==
  /\ Called("~standard.validate")
  /\ last.v = Hello
  /\ last.out = Success(Hello)
  /\ LastNode.kind = "extend"

\* a JSON value by structure: a JSON primitive, an array of JSON values, or
\* a plain object whose own values are JSON values
RECURSIVE JsonSafe(_)
JsonSafe(v) ==
  CASE v.t \in {"boolean", "string", "number", "null"} -> TRUE
    [] v.t = "array" -> \A i \in DOMAIN v.items : JsonSafe(v.items[i])
    [] v.t = "object" -> v.proto = "Object" /\ \A i \in DOMAIN v.vals : JsonSafe(v.vals[i])
    [] OTHER -> FALSE

\* C9: isJsonArray(v) is true iff v is an array and every member of v is a
\* JSON value.
C9_JsonArrayChecksMembers ==
  (Called("call") /\ last.g = Is("isJsonArray")) =>
     (last.out = True <=>
        (last.v.t = "array" /\ \A i \in DOMAIN last.v.items : JsonSafe(last.v.items[i])))

\* C10: isJsonValue(v) and isJsonObject(v) are false whenever a value nested
\* at any depth inside v is not JSON-safe.
C10_JsonIsEager ==
  (Called("call") /\ last.g \in {Is("isJsonValue"), Is("isJsonObject")} /\ ~JsonSafe(last.v)) =>
     last.out = False

\* a decimal numeral: an optional minus sign, digits, and optionally a point
\* followed by digits
IsDecimalNumeral(cs) ==
  LET body == IF Len(cs) > 0 /\ cs[1] = "-" THEN Tail(cs) ELSE cs
      ip == DigitRun(body)
      rest == SubSeq(body, Len(ip) + 1, Len(body))
  IN /\ Len(ip) > 0
     /\ \/ rest = <<>>
        \/ Len(rest) > 1 /\ rest[1] = "." /\ AllDigits(Tail(rest))

\* C11: isNumeric is true for every number other than NaN (Infinity and
\* -Infinity included) and for every string that is a decimal numeral; it is
\* false for NaN, for "" and for every string that is not a numeral.
C11_NumericClassification ==
  (Called("call") /\ last.g = Is("isNumeric")) =>
     /\ last.v.t = "number" => (last.out = True <=> last.v.cls /= "nan")
     /\ last.v.t = "string" => (last.out = True <=> IsDecimalNumeral(last.v.s))
     /\ last.v.t \in {"number", "string"} => last.out \in {True, False}

\* C12: isNumber(v) is true iff typeof v is "number" and v is not NaN.
C12_NumberExcludesNaN ==
  (Called("call") /\ last.g = Is("isNumber")) =>
     (last.out = True <=> (TypeOf(last.v) = "number" /\ last.v.cls /= "nan"))

\* the closed classification "empty": null, undefined, "", an array of
\* length 0, a plain object (prototype Object.prototype) without own keys
EmptyClass(v) ==
  \/ v = Null
  \/ v = Undefined
  \/ v.t = "string" /\ Len(v.s) = 0
  \/ v.t = "array" /\ Len(v.items) = 0
  \/ v.t = "object" /\ v.proto = "Object" /\ Len(v.keys) = 0

Result == registries[last.out.ref]
Prior == registries[last.g]
NewGuard(i) == Len(AllGuards) - Len(last.v.keys) + i
KeySet(o) == { o.keys[i] : i \in DOMAIN o.keys }

\* C14: when extend is given a name that the prior registry (the registry
\* supplied, or the Is library when none is) already has, the registry it
\* returns binds that name to the guard built from the newly supplied
\* parser, not to the guard the prior registry has under it.
C14_NewNameWins ==
  Called("extend") =>
     \A i \in DOMAIN last.v.keys :
        HasKey(Prior, last.v.keys[i]) =>
           /\ Lookup(Result, last.v.keys[i]) = NewGuard(i)
           /\ Lookup(Result, last.v.keys[i]) /= Lookup(Prior, last.v.keys[i])

\* C15: extend returns a new registry object and never changes a registry
\* that exists (one passed in, or the Is library): each keeps its keys and
\* guards; the result has all keys of the prior registry and the supplied
\* names as they were written.
C15_ExtendReturnsNewRegistry ==
  [][ /\ \A i \in DOMAIN registries : registries'[i] = registries[i]
      /\ last'.op = "extend" =>
           /\ last'.out.ref \notin DOMAIN registries
           /\ KeySet(registries'[last'.out.ref])
                = KeySet(registries[last'.g]) \cup { last'.v.keys[i] : i \in DOMAIN last'.v.keys }
    ]_vars

\* a registry made by extend was passed to extend, and still lacks the name
\* the new registry has
C15_Witness ==
  /\ Called("extend")
  /\ last.out.args = 2
  /\ last.g = 2
  /\ last.out.ref = 3
  /\ \E k \in KeySet(Result) : ~HasKey(registries[2], k) /\ ~HasKey(registries[1], k)
  /\ registries[1] = IsRegistry

\* PascalCase of the names given to batch
PascalCaseOf(name) ==
  CASE name = <<"M", "e", "a", "t", "b", "a", "l", "l">> -> <<"M", "e", "a", "t", "b", "a", "l", "l">>
    [] name = <<"s", "p", "a", "g", "h", "e", "t", "t", "i">> -> <<"S", "p", "a", "g", "h", "e", "t", "t", "i">>
    [] name = <<"u", "s", "e", "r", "-", "r", "o", "l", "e">> -> <<"U", "s", "e", "r", "R", "o", "l", "e">>
    [] name = <<"A", "d", "m", "i", "n", "R", "o", "l", "e">> -> <<"A", "d", "m", "i", "n", "R", "o", "l", "e">>
    [] name = <<"u", "s", "e", "r", "_", "r", "o", "l", "e">> -> <<"U", "s", "e", "r", "R", "o", "l", "e">>
    [] name = <<"u", "s", "e", "r", "R", "o", "l", "e">> -> <<"U", "s", "e", "r", "R", "o", "l", "e">>

\* C16: for every entry name -> parser given to batch, whatever the casing
\* or the separators of name, the map returned has the key "is" +
\* PascalCase(name), bound to a guard that accepts v exactly when that
\* entry's parser succeeds on v.
C16_BatchKeys ==
  Called("batch") =>
     \A i \in DOMAIN last.v.keys :
        LET key == <<"i", "s">> \o PascalCaseOf(last.v.keys[i])
        IN /\ HasKey(Result, key)
           /\ \A v \in RegistryValues :
                 Guard(AllGuards, Lookup(Result, key), v) = callback(ApplyParser(last.v.parsers[i], v))

\* C17: when G.strict(v, msg) or G.assert(v, msg) fails, the TypeError
\* carries exactly msg; when no message is supplied, its message is a
\* default that names the parser the guard was built from.
C17_StrictMessage ==
  ((Called("strict") \/ Called("assert")) /\ Guard(AllGuards, last.g, last.v) = False) =>
     /\ last.out.t = "throw"
     /\ last.msg /= Undefined => last.out.msg = last.msg.s
     /\ (last.msg = Undefined /\ LastNode.kind = "parser") =>
          last.out.msg = <<"Type guard failed. Parser ", LastNode.name, " returned null.">>

\* the exception raised while the parser of guard i runs on v, or Null if
\* none is: the first one in the order the parsers are called
RECURSIVE Raised(_, _, _)
Raised(gs, i, v) ==
  LET n == gs[i]
  IN CASE n.kind = "parser" ->
            IF IsThrow(ApplyParser(n.name, v)) THEN ApplyParser(n.name, v) ELSE Null
       [] n.kind = "or" ->
            IF Raised(gs, n.a, v) /= Null THEN Raised(gs, n.a, v)
            ELSE IF Parser(gs, n.a, v) = Null THEN Raised(gs, n.b, v)
            ELSE Null
       [] n.kind = "extend" ->
            IF Raised(gs, n.a, v) /= Null THEN Raised(gs, n.a, v)
            ELSE IF Parser(gs, n.a, v) /= Null /\ IsThrow(ApplyRefinement(n.name, v))
              THEN ApplyRefinement(n.name, v)
            ELSE Null

\* whether the invocation op on input v calls the guard's parser at all:
\* optional returns early on undefined, notEmpty on an empty value
CallsParser(op, v) ==
  CASE op \in {"optional", "optional.strict"} -> v /= Undefined
    [] op \in {"notEmpty", "notEmpty.strict", "notEmpty.validate"} -> isEmpty(v) = False
    [] op \in {"call", "strict", "assert", "validate", "~standard.validate"} -> TRUE
    [] OTHER -> FALSE

\* C18: whenever an invocation of a guard, in any mode, also of a guard
\* derived with or / extend, calls a parser that throws, the caller gets
\* that same exception, unmodified.
C18_ExceptionsPropagate ==
  (CallsParser(last.op, last.v) /\ Raised(AllGuards, last.g, last.v) /= Null) =>
     last.out = Raised(AllGuards, last.g, last.v)

\* validate on a derived guard whose parser threw
C18_Witness ==
  /\ Called("validate")
  /\ LastNode.kind \in {"or", "extend"}
  /\ Raised(AllGuards, last.g, last.v) /= Null
  /\ IsThrow(last.out)

PrototypeChain(v) ==
  CASE ProtoOf(v) \in {"null", "none"} -> {}
    [] ProtoOf(v) = "Object" -> {"Object"}
    [] ProtoOf(v) = "AsyncFunction" -> {"AsyncFunction", "Function", "Object"}
    [] OTHER -> {ProtoOf(v), "Object"}

\* k is a key of v: its own, or one inherited through the prototype chain
IsKeyOf(v, k) == k \in OwnKeys(v) \/ \E p \in PrototypeChain(v) : k \in ProtoKeys(p)

\* C20: hasProperty(obj, key, guard?) is true if and only if key is a key
\* of obj, own or inherited through the prototype chain, and, when a guard
\* is supplied, guard(obj[key]) holds; it changes no guard and no registry.
C20_HasProperty ==
  [][ last'.op = "hasProperty" =>
        /\ last'.out = True <=>
             /\ IsKeyOf(last'.v, last'.k)
             /\ last'.g /= 0 => Guard(AllGuards, last'.g, GetProp(last'.v, last'.k)) = True
        /\ guards' = guards
        /\ registries' = registries ]_vars

\* hasProperty was true of an inherited key whose value passes the guard
C20_Witness ==
  /\ Called("hasProperty")
  /\ last.k \notin OwnKeys(last.v)
  /\ last.g = Is("isFunction")
  /\ last.out = True

\* C24: the parser of G1.or(G2) returns exactly what G1's parser returned
\* when that succeeded, and otherwise exactly what G2's parser returned;
\* what it returns on success is the actual narrowed value, that is the
\* input itself, not a boolean standing in for it.  Chains are guards
\* whose left operand is itself made by or.
C24_OrKeepsNarrowedValue ==
  (Called("_.parser") /\ LastNode.kind = "or") =>
     /\ Parser(AllGuards, LastNode.a, last.v) /= Null =>
          last.out = Parser(AllGuards, LastNode.a, last.v)
     /\ Parser(AllGuards, LastNode.a, last.v) = Null =>
          last.out = Parser(AllGuards, LastNode.b, last.v)
     /\ last.out /= Null => last.out = last.v

\* C25: in G.extend(R) the refinement R runs only when G's parser has
\* succeeded, on the value that parser returned; when G's parser fails the
\* result is failure.
C25_ExtendFeedsNarrowedValue ==
  (Called("_.parser") /\ LastNode.kind = "extend") =>
     /\ Parser(AllGuards, LastNode.a, last.v) = Null => last.out = Null
     /\ Parser(AllGuards, LastNode.a, last.v) /= Null =>
          last.out = ApplyRefinement(LastNode.name, Parser(AllGuards, LastNode.a, last.v))

\* C26: optional and notEmpty compose in either order with the same
\* result: G.optional.notEmpty(v) and G.notEmpty.optional(v) both are
\* v === undefined || (!isEmpty(v) && G(v)).
C26_OptionalNotEmptyCompose ==
  (Called("optional.notEmpty") \/ Called("notEmpty.optional")) =>
     last.out = optional(isUndefined(last.v), GuardNotEmpty(AllGuards, last.g, last.v))

\* C27: a notEmpty variant can be an operand of or without error:
\* G1.notEmpty.or(G2) gives a guard that is G1.notEmpty(v) || G2(v) on
\* every v, and G1.notEmpty.or(G2.notEmpty) one that is
\* G1.notEmpty(v) || G2.notEmpty(v).
C27_NotEmptyOr ==
  Called("notEmpty.or") =>
     /\ ~IsThrow(last.out)
     /\ \A v \in AlgValues :
           Guard(AllGuards, last.out.ref, v) =
             JsOr(GuardNotEmpty(AllGuards, last.g, v),
                  IF last.v.notEmpty THEN GuardNotEmpty(AllGuards, last.v.ref, v)
                  ELSE Guard(AllGuards, last.v.ref, v))

\* v has a property then, own or inherited, whose value is callable
HasCallableThen(v) == IsKeyOf(v, "then") /\ TypeOf(GetProp(v, "then")) = "function"

\* C22: isThenable (the same guard as isPromiseLike) is true if and only
\* if v has a property then whose value is callable, whatever else v is.
C22_ThenableIsStructural ==
  (Called("call") /\ LastNode.name = "isPromiseLike") =>
     (last.out = True <=> HasCallableThen(last.v))

\* a string that has characters, all of them blank
WhitespaceOnly(v) == v.t = "string" /\ Len(v.s) > 0 /\ \A i \in DOMAIN v.s : IsSpace(v.s[i])

\* C28: isEmpty counts a string of blanks only as empty, and so G.notEmpty
\* rejects such a string.
C28_WhitespaceIsEmpty ==
  WhitespaceOnly(last.v) =>
     /\ (Called("call") /\ LastNode.name = "isEmpty") => last.out = True
     /\ Called("notEmpty") => last.out = False

\* C29: isNumeric does not coerce: a value that is neither a number nor a
\* string (a boolean, null, undefined, an object, an array of any content)
\* is rejected: the guard does not accept it.
C29_NumericDoesNotCoerce ==
  (Called("call") /\ LastNode.name = "isNumeric" /\ last.v.t \notin {"number", "string"}) =>
     last.out /= True

\* C30: the map batch returns has exactly one key per entry of the config:
\* no two names of a config end up under the same key.
C30_BatchKeepsEveryEntry ==
  Called("batch") =>
     /\ Len(Result.keys) = Len(last.v.keys)
     /\ \A i, j \in DOMAIN last.v.keys :
           i /= j => IsPrefix \o toPascalCase(last.v.keys[i]) /= IsPrefix \o toPascalCase(last.v.keys[j])

\* C21: isIpv4(v) is true exactly when v is a string of four decimal octets
\* separated by dots, each the numeral of a number from 0 to 255 with no
\* leading zero, and nothing before, between or after them.
OctetNumerals == { NatToChars(n) : n \in 0..255 }
IsDottedQuad(v) ==
  /\ v.t = "string"
  /\ \E d1 \in DOMAIN v.s, d2 \in DOMAIN v.s, d3 \in DOMAIN v.s :
       /\ d1 < d2 /\ d2 < d3
       /\ v.s[d1] = "." /\ v.s[d2] = "." /\ v.s[d3] = "."
       /\ SubSeq(v.s, 1, d1 - 1) \in OctetNumerals
       /\ SubSeq(v.s, d1 + 1, d2 - 1) \in OctetNumerals
       /\ SubSeq(v.s, d2 + 1, d3 - 1) \in OctetNumerals
       /\ SubSeq(v.s, d3 + 1, Len(v.s)) \in OctetNumerals
C21_Ipv4DottedQuad ==
  (Called("call") /\ LastNode.name = "isIpv4") =>
    last.out = JSBool(IsDottedQuad(last.v))
C21_Witness ==
  /\ Called("call") /\ LastNode.name = "isIpv4"
  /\ last.v = Str(<<"2", "5", "5", ".", "0", ".", "7", ".", "2", "5", "5">>)
  /\ last.out = True

\* C23: the validator of describeInput(target, guard, transform) answers
\* with status 400 and the message "Input validation failed for target:
\* <target>" exactly when guard(x) is false; otherwise the validated value
\* is transform(x) when a transform was given and x when not; and the
\* transform is not called on an input the guard rejected.
C23_DescribeInput ==
  Called("describeInput") =>
    /\ (last.out.t = "response") <=> (Guard(AllGuards, last.g, last.v) = False)
    /\ last.out.t = "response" =>
         /\ last.out.status = 400
         /\ last.out.message = <<"Input validation failed for target: ", last.target>>
         /\ last.transformed = <<>>
    /\ last.out.t /= "response" =>
         /\ last.out.t = "valid"
         /\ last.out.value = (CASE last.transformFn = "undefined" -> last.v
                                [] last.transformFn = "String" -> ToStringJS(last.v)
                                [] last.transformFn = "Boolean" -> JSBool(Truthy(last.v)))
C23_Witness ==
  /\ Called("describeInput")
  /\ last.transformFn = "String"
  /\ last.out.t = "response"
  /\ last.target = "json"
  /\ last.v = Num(5)
  /\ LastNode.name = "isString"

====
